---- MODULE Spec2Model ----
(***************************************************************************)
(* A model of the forwarding DNS resolver of dns-server-ts: the request    *)
(* table (RequestManager), the forwarder (DnsForwarder), the cache client  *)
(* (DnsRedisClient), the wire helpers (dns-utils) and the server loop      *)
(* (DnsServer).                                                            *)
(*                                                                         *)
(* Node/Bun run every callback to completion on one thread, so a handler   *)
(* is one action up to its next await on backend I/O.  A DnsRequest is a   *)
(* JavaScript object shared by reference between the table and every       *)
(* attempt of the same client query: the table stores the query's number   *)
(* (the reference) and req[q] holds the object's fields.                   *)
(***************************************************************************)
EXTENDS Integers, Sequences, FiniteSets, TLC

\* ------------------------------------------------------------ bounds
MaxQueries == 2
NumUpstreamIds == 2
MaxMsgs == 1
MaxTicks == 1
MaxAttempts == 4

\* ------------------------------------------------- program constants
AttemptTimeoutMs == 5000
StaleTimeoutMs == 30000
SweepIntervalMs == 60000
CacheTtl == 300
HeaderLen == 12

DNS_SERVERS == <<"8.8.8.8", "1.1.1.1", "9.9.9.9">>

\* --------------------------------------------------------- utilities
Drop(f, k) == [x \in (DOMAIN f) \ {k} |-> f[x]]

Put(f, k, v) == [x \in (DOMAIN f) \cup {k} |-> IF x = k THEN v ELSE f[x]]

EmptyMap == [x \in {} |-> 0]

\* Buffer.readUInt16BE(0): defined for buffers of at least two octets
\* (a shorter buffer makes the call throw a RangeError).
CanReadUInt16BE(b) == Len(b) >= 2

ReadUInt16BE(b) == b[1] * 256 + b[2]

\* A write of the value as 32 bits: octets 0-3.
WriteUInt16BE_AsUInt32(b, v) == [i \in 1..Len(b) |-> IF i <= 2 THEN 0 ELSE IF i = 3 THEN (v \div 256) % 256 ELSE IF i = 4 THEN v % 256 ELSE b[i]]

\* Buffer.writeUInt16BE(v, 0): in place, octets 0-1 only.
WriteUInt16BE(b, v) == [b EXCEPT ![1] = (v \div 256) % 256, ![2] = v % 256]

\* String.prototype.toLowerCase on the ASCII codes of a string.
ToLowerCase(s) == [i \in 1..Len(s) |-> IF s[i] >= 65 /\ s[i] <= 90 THEN s[i] + 32 ELSE s[i]]

Min(a, b) == IF a < b THEN a ELSE b

\* A slice that takes end - start octets whatever the buffer holds: what
\* lies past the end reads as 0.
AsciiSlice_Unclamped(buf, start, end) == [i \in 1..(end - start) |-> IF start + i <= Len(buf) THEN buf[start + i] % 128 ELSE 0]

\* buf.toString('ascii', start, end): the end is clamped to the buffer and
\* the high bit of every octet is dropped.  start and end are 0-based.
AsciiSlice(buf, start, end) == [i \in 1..(Min(end, Len(buf)) - Min(start, Len(buf))) |-> buf[Min(start, Len(buf)) + i] % 128]

RECURSIVE ParseLabels(_, _, _)
\* The while loop of parseDomainFromQuery; offset is 0-based as in the code.
ParseLabels(buf, offset, domain) ==
  IF offset < Len(buf) /\ buf[offset + 1] # 0
  THEN LET labelLength == buf[offset + 1]
           sep == IF Len(domain) > 0 THEN <<46>> ELSE <<>>
       IN ParseLabels(buf, offset + 1 + labelLength,
                      domain \o sep \o AsciiSlice(buf, offset + 1, offset + 1 + labelLength))
  ELSE domain

parseDomainFromQuery(queryBuffer) == ToLowerCase(ParseLabels(queryBuffer, HeaderLen, <<>>))

\* ------------------------------------------------------------ base64
RECURSIVE Base64Encode(_)
\* Buffer.toString('base64'): sextets 0..63, 64 is the padding sign.
Base64Encode(b) ==
  IF Len(b) = 0 THEN <<>>
  ELSE IF Len(b) = 1 THEN <<b[1] \div 4, (b[1] % 4) * 16, 64, 64>>
  ELSE IF Len(b) = 2 THEN <<b[1] \div 4, (b[1] % 4) * 16 + b[2] \div 16, (b[2] % 16) * 4, 64>>
  ELSE <<b[1] \div 4, (b[1] % 4) * 16 + b[2] \div 16, (b[2] % 16) * 4 + b[3] \div 64, b[3] % 64>>
       \o Base64Encode(SubSeq(b, 4, Len(b)))

RECURSIVE Base64Decode(_)
\* Buffer.from(text, 'base64')
Base64Decode(s) ==
  IF Len(s) < 4 THEN <<>>
  ELSE (IF s[3] = 64 THEN <<s[1] * 4 + s[2] \div 16>>
        ELSE IF s[4] = 64 THEN <<s[1] * 4 + s[2] \div 16, (s[2] % 16) * 16 + s[3] \div 4>>
        ELSE <<s[1] * 4 + s[2] \div 16, (s[2] % 16) * 16 + s[3] \div 4, (s[3] % 4) * 64 + s[4]>>)
       \o Base64Decode(SubSeq(s, 5, Len(s)))

\* A key built from the upper-cased name.
CacheKey_UpperCase(domain) == <<100, 110, 115, 58>> \o [i \in 1..Len(domain) |-> IF domain[i] >= 97 /\ domain[i] <= 122 THEN domain[i] - 32 ELSE domain[i]]

\* `dns:${domain.toLowerCase()}`
CacheKey(domain) == <<100, 110, 115, 58>> \o ToLowerCase(domain)

\* ------------------------------------------------------------ inputs
\* Octets 2.. of a one-question query for a one-letter name: flags 0x0100,
\* QDCOUNT 1, then the QNAME, QTYPE A and QCLASS IN.
QueryBody(ch) == <<1, 0, 0, 1, 0, 0, 0, 0, 0, 0, 1, ch, 0, 0, 1, 0, 1>>

\* Octets 2.. of a reply: flags 0x8180, one question, one A record.
ReplyBody(ch, ip) == <<129, 128, 0, 1, 0, 1, 0, 0, 0, 0, 1, ch, 0, 0, 1, 0, 1, 192, 12, 0, 1, 0, 1, 0, 0, 0, 60, 0, 4, 10, 0, 0, ip>>

ReplyBodies == {ReplyBody(97, 1)}

\* The values Math.floor(Math.random() * 65535) takes in this model.
UpstreamIdSpace == {k * 257 : k \in 0..(NumUpstreamIds - 1)}

\* A datagram as its sender built it: the identifier, then the rest.
Datagram(id, body) == <<(id \div 256) % 256, id % 256>> \o body

\* Transaction identifiers an upstream datagram may carry.
WireIds == UpstreamIdSpace

\* What the random source yields during one run of the allocator.
DrawSeqs == {[k \in 1..NumUpstreamIds |-> (k - 1) * 257]}


\* ------------------------------------------------------------- state
VARIABLES
  ready,               \* DnsRedisClient.ready, fixed by initialize()
  now,                 \* Date.now(), in ms
  nextSweep,           \* when the 60 s cleanup interval fires next
  query,               \* handleDnsQuery invocations: buffer, sender, position
  req,                 \* the DnsRequest objects (clientInfo), one per forwarded query
  pendingRequests,     \* RequestManager.pendingRequests: hash -> DnsRequest (by reference)
  upstreamToHashMap,   \* RequestManager.upstreamToHashMap: upstream id -> hash
  currentServerIndex,  \* DnsForwarder.currentServerIndex
  att,                 \* one record per forwardUpstream attempt: its closure and socket
  handlers,            \* handleUpstreamResponse invocations suspended in cacheResponse
  nmsg,                \* upstream datagrams received so far
  cache,               \* the key/value backend: key -> [val, ttl]
  toClient,            \* datagrams handed to the listening socket, in order
  toUpstream,          \* datagrams handed to upstream sockets, in order
  orphans,             \* upstream datagrams dropped as orphans (history)
  thrown               \* exceptions that escaped a handler (history)

vars == <<ready, now, nextSweep, query, req, pendingRequests, upstreamToHashMap, currentServerIndex, att, handlers, nmsg, cache, toClient, toUpstream, orphans, thrown>>

\* The part of the state the forwarder and the request table work on,
\* as one value, so that a handler is a composition of the code's calls.
\* threw: the handler was left by an exception.
Cur == [query |-> query, pendingRequests |-> pendingRequests, upstreamToHashMap |-> upstreamToHashMap, req |-> req, att |-> att, toClient |-> toClient, toUpstream |-> toUpstream, threw |-> FALSE]

Apply(T) ==
  /\ query' = T.query
  /\ pendingRequests' = T.pendingRequests
  /\ upstreamToHashMap' = T.upstreamToHashMap
  /\ req' = T.req
  /\ att' = T.att
  /\ toClient' = T.toClient
  /\ toUpstream' = T.toUpstream
  /\ thrown' = IF T.threw THEN thrown + 1 ELSE thrown

\* ----------------------------------------------------- RequestManager
NoId == 0 - 1

\* An allocator that never draws again: a first draw that collides keeps
\* it in its loop for good.
generateUniqueUpstreamId_NoRedraw(map, draws) == IF draws = <<>> \/ Head(draws) \in DOMAIN map THEN NoId ELSE Head(draws)

\* An allocator that returns its first draw without looking at the map.
generateUniqueUpstreamId_FirstDraw(map, draws) == IF draws = <<>> THEN NoId ELSE Head(draws)

RECURSIVE generateUniqueUpstreamId(_, _)
\* The do-while over the values the random source yields: the first draw
\* that is no key of upstreamToHashMap (NoId: the draws ran out first).
generateUniqueUpstreamId(map, draws) ==
  IF draws = <<>> THEN NoId
  ELSE IF Head(draws) \in DOMAIN map THEN generateUniqueUpstreamId(map, Tail(draws))
  ELSE Head(draws)

RECURSIVE Rejections(_, _)
\* How many times the do-while went round again: the draws before the one
\* returned (history).
Rejections(map, draws) ==
  IF draws = <<>> \/ Head(draws) \notin DOMAIN map THEN 0
  ELSE 1 + Rejections(map, Tail(draws))

storeRequest(T, hash, q) == [T EXCEPT !.pendingRequests = Put(@, hash, q), !.upstreamToHashMap = Put(@, T.req[q].upstreamQueryId, hash)]

\* A lookup that, for an id it does not know, falls back on some pending
\* request instead of null.
getRequestByUpstreamId_FallsBack(T, upstreamId) ==
  IF upstreamId \in DOMAIN T.upstreamToHashMap /\ T.upstreamToHashMap[upstreamId] \in DOMAIN T.pendingRequests
  THEN T.pendingRequests[T.upstreamToHashMap[upstreamId]]
  ELSE IF DOMAIN T.pendingRequests # {} THEN T.pendingRequests[CHOOSE h \in DOMAIN T.pendingRequests : TRUE]
  ELSE 0

\* The found request (its query number), 0 for null.
getRequestByUpstreamId(T, upstreamId) ==
  IF upstreamId \in DOMAIN T.upstreamToHashMap /\ T.upstreamToHashMap[upstreamId] \in DOMAIN T.pendingRequests
  THEN T.pendingRequests[T.upstreamToHashMap[upstreamId]]
  ELSE 0

getRequestByHash(T, hash) == IF hash \in DOMAIN T.pendingRequests THEN T.pendingRequests[hash] ELSE 0

removeRequest(T, hash, upstreamId) == [T EXCEPT !.pendingRequests = Drop(@, hash), !.upstreamToHashMap = Drop(@, upstreamId)]

StaleHashes(T, t, timeoutMs) == {h \in DOMAIN T.pendingRequests : t - T.req[T.pendingRequests[h]].timestamp > timeoutMs}

cleanupStaleRequests(T, t, timeoutMs) ==
  LET stale == StaleHashes(T, t, timeoutMs)
      ids == {T.req[T.pendingRequests[h]].upstreamQueryId : h \in stale}
  IN [T EXCEPT !.pendingRequests = [h \in (DOMAIN @) \ stale |-> @[h]],
               !.upstreamToHashMap = [i \in (DOMAIN @) \ ids |-> @[i]]]

\* A count that is incremented for every entry the loop visits.
cleanedCount_Visited(T, t, timeoutMs) == Cardinality(DOMAIN T.pendingRequests)

\* The number cleanupStaleRequests returns: one for each entry of
\* pendingRequests it found stale.
cleanedCount(T, t, timeoutMs) == Cardinality(StaleHashes(T, t, timeoutMs))

getStats == [pending |-> Cardinality(DOMAIN pendingRequests), upstream |-> Cardinality(DOMAIN upstreamToHashMap)]

\* ------------------------------------------------------- DnsForwarder
\* generateRequestHash: 16 hex digits of a SHA-256 over the client, the
\* name, the time and four random octets; taken as never repeating, the
\* n-th hash is the number n.
generateRequestHash(T) == Len(T.att) + 1

\* dgram's Socket.close(): a socket that is not running makes it throw
\* ERR_SOCKET_DGRAM_NOT_RUNNING.
SocketClose(T, s) == IF T.att[s].sock = "open" THEN [T EXCEPT !.att[s].sock = "closed"] ELSE [T EXCEPT !.threw = TRUE]

cleanup(T, requestHash, upstreamQueryId, socket) == SocketClose(removeRequest(T, requestHash, upstreamQueryId), socket)

\* An attempt that writes the upstream id into the client's buffer itself,
\* without the copy of Buffer.from.
forwardUpstream_InPlace(T, q, serverIndex, draws, t, cause) ==
  IF serverIndex >= Len(DNS_SERVERS) THEN T
  ELSE LET upstreamQueryId == generateUniqueUpstreamId(T.upstreamToHashMap, draws)
           requestHash == generateRequestHash(T)
           upstreamQuery == WriteUInt16BE(T.query[q].buf, upstreamQueryId)
           T1 == [T EXCEPT !.req[q].upstreamQueryId = upstreamQueryId,
                           !.req[q].domain = parseDomainFromQuery(T.query[q].buf),
                           !.req[q].requestHash = requestHash,
                           !.query[q].buf = upstreamQuery]
           T2 == storeRequest(T1, requestHash, q)
       IN [T2 EXCEPT !.att = Append(@, [q |-> q, idx |-> serverIndex, uid |-> upstreamQueryId, sock |-> "open", timer |-> t + AttemptTimeoutMs, send |-> "pending", cause |-> cause, failed |-> FALSE, rejected |-> Rejections(T.upstreamToHashMap, draws), draws |-> draws, seen |-> DOMAIN T.upstreamToHashMap]),
                     !.toUpstream = Append(@, [server |-> serverIndex, bytes |-> upstreamQuery, hash |-> requestHash])]

\* One attempt: serverIndex is 0-based as in the code.  The attempt's
\* record keeps what its three callbacks close over, its socket, its timer
\* and its send callback; cause tells which handler started it, failed
\* whether one of its failure handlers has run; draws, seen and rejected
\* tell what the random source yielded to the allocator, the keys of
\* upstreamToHashMap it was called with and how many draws it threw away
\* (history).
forwardUpstream(T, q, serverIndex, draws, t, cause) ==
  IF serverIndex >= Len(DNS_SERVERS) THEN T
  ELSE LET upstreamQueryId == generateUniqueUpstreamId(T.upstreamToHashMap, draws)
           requestHash == generateRequestHash(T)
           upstreamQuery == WriteUInt16BE(T.query[q].buf, upstreamQueryId)
           T1 == [T EXCEPT !.req[q].upstreamQueryId = upstreamQueryId,
                           !.req[q].domain = parseDomainFromQuery(T.query[q].buf),
                           !.req[q].requestHash = requestHash]
           T2 == storeRequest(T1, requestHash, q)
       IN [T2 EXCEPT !.att = Append(@, [q |-> q, idx |-> serverIndex, uid |-> upstreamQueryId, sock |-> "open", timer |-> t + AttemptTimeoutMs, send |-> "pending", cause |-> cause, failed |-> FALSE, rejected |-> Rejections(T.upstreamToHashMap, draws), draws |-> draws, seen |-> DOMAIN T.upstreamToHashMap]),
                     !.toUpstream = Append(@, [server |-> serverIndex, bytes |-> upstreamQuery, hash |-> requestHash])]

\* The do-while of the allocator ends within the draws (it is not reached
\* when the pool is exhausted).
Allocates(T, serverIndex, draws) == serverIndex >= Len(DNS_SERVERS) \/ generateUniqueUpstreamId(T.upstreamToHashMap, draws) # NoId

\* The same for the attempt that follows the cleanup of attempt h.
AllocatesAfter(T, h, draws) == Allocates(removeRequest(T, h, T.att[h].uid), T.att[h].idx + 1, draws)

\* A fail-over that closes the socket and goes on to the next upstream
\* without taking the entry of the failed attempt out of the table.
FailOver_KeepsEntry(T, h, draws, t, cause) ==
  LET T1 == SocketClose([T EXCEPT !.att[h].failed = TRUE], h)
  IN IF T1.threw THEN T1 ELSE forwardUpstream(T1, T.att[h].q, T.att[h].idx + 1, draws, t, cause)

\* A fail-over that walks round the pool: after the last upstream it goes
\* on with the first.
FailOver_WrapsAround(T, h, draws, t, cause) ==
  LET T1 == cleanup([T EXCEPT !.att[h].failed = TRUE], h, T.att[h].uid, h)
  IN IF T1.threw THEN T1 ELSE forwardUpstream(T1, T.att[h].q, (T.att[h].idx + 1) % Len(DNS_SERVERS), draws, t, cause)

\* cleanup(...) followed by forwardUpstream(..., serverIndex + 1): the body
\* shared by the error listener, the timer and the failed send callback.
FailOver(T, h, draws, t, cause) ==
  LET T1 == cleanup([T EXCEPT !.att[h].failed = TRUE], h, T.att[h].uid, h)
  IN IF T1.threw THEN T1 ELSE forwardUpstream(T1, T.att[h].q, T.att[h].idx + 1, draws, t, cause)

\* A reply path that leaves the upstream's id in the response it sends.
FinishResponse_KeepsUpstreamId(T, q, response, socket) ==
  LET originalRequest == T.req[q]
      T1 == [T EXCEPT !.toClient = Append(@, [to |-> <<originalRequest.clientIP, originalRequest.clientPort>>, bytes |-> response, q |-> q, from |-> socket, src |-> response])]
  IN SocketClose(removeRequest(T1, originalRequest.requestHash, originalRequest.upstreamQueryId), socket)

\* handleUpstreamResponse after the awaited cacheResponse: restore the
\* client's id, send, remove, close.
FinishResponse(T, q, response, socket) ==
  LET originalRequest == T.req[q]
      out == WriteUInt16BE(response, originalRequest.queryId)
      T1 == [T EXCEPT !.toClient = Append(@, [to |-> <<originalRequest.clientIP, originalRequest.clientPort>>, bytes |-> out, q |-> q, from |-> socket, src |-> response])]
  IN SocketClose(removeRequest(T1, originalRequest.requestHash, originalRequest.upstreamQueryId), socket)

\* -------------------------------------------------------- DnsServer
\* The clientInfo object handleDnsQuery builds on a miss.
NewClientInfo(T, q, t) == [clientIP |-> T.query[q].from[1], clientPort |-> T.query[q].from[2], timestamp |-> t, queryId |-> T.query[q].queryId, upstreamQueryId |-> 0, domain |-> <<>>, requestHash |-> 0]

\* The index handleDnsQuery passes to forwardUpstream: none, so the
\* parameter's default applies.
StartIndex == 0

\* handleDnsQuery from the cache miss on: clientInfo, then the first attempt.
MissPath(T, q, draws, t) == forwardUpstream([T EXCEPT !.req = Put(@, q, NewClientInfo(T, q, t)), !.query[q].pc = "done"], q, StartIndex, draws, t, "query")

\* A cache hit without the return after the send: the handler goes on
\* into the miss path.
HitPath_FallsThrough(T, q, cachedResponse) ==
  LET T1 == [T EXCEPT !.toClient = Append(@, [to |-> T.query[q].from, bytes |-> WriteUInt16BE(cachedResponse, T.query[q].queryId), q |-> q, from |-> 0, src |-> cachedResponse])]
  IN MissPath(T1, q, CHOOSE d \in DrawSeqs : TRUE, now)

\* handleDnsQuery on a cache hit: the cached octets with the client's id
\* go to the sender (a buffer under two octets makes the write throw, and
\* the handler's catch ends it).
HitPath(T, q, cachedResponse) ==
  IF CanReadUInt16BE(cachedResponse)
  THEN [T EXCEPT !.toClient = Append(@, [to |-> T.query[q].from, bytes |-> WriteUInt16BE(cachedResponse, T.query[q].queryId), q |-> q, from |-> 0, src |-> cachedResponse]), !.query[q].pc = "done"]
  ELSE [T EXCEPT !.query[q].pc = "done"]

\* What the backend does with a command: it answers, or the awaited
\* promise rejects.
Outcomes == {"ok", "err"}

\* A cache read that takes a failed backend read for a hit on the text
\* stored under the key.
getCachedResponse_HitOnError(domain, o) == IF CacheKey(domain) \in DOMAIN cache THEN Base64Decode(cache[CacheKey(domain)].val) ELSE <<>>

\* getCachedResponse once the backend has answered: the decoded text under
\* the key, <<>> for null (absent key, empty text or backend error).
getCachedResponse(domain, o) == IF o = "ok" /\ CacheKey(domain) \in DOMAIN cache THEN Base64Decode(cache[CacheKey(domain)].val) ELSE <<>>

\* The first statements of handleDnsQuery: the id and the name are read
\* from the datagram.
Arrived(T, buf, from, pc) == [T EXCEPT !.query = Append(@, [buf |-> buf, from |-> from, queryId |-> ReadUInt16BE(buf), domain |-> parseDomainFromQuery(buf), pc |-> pc])]

\* A handler whose cache calls go to the backend whatever ready says.
QueryArrive_IgnoresReady(buf, from, draws) ==
  /\ CanReadUInt16BE(buf)
  /\ draws = <<>>
  /\ Apply(Arrived(Cur, buf, from, "get"))
  /\ UNCHANGED <<ready, now, nextSweep, currentServerIndex, handlers, nmsg, cache, orphans>>

\* A datagram arrives on the listening socket: handleDnsQuery up to its
\* first suspension.  With the cache client not ready no await suspends on
\* I/O and the handler runs through the miss path.
QueryArrive(buf, from, draws) ==
  /\ CanReadUInt16BE(buf)
  /\ LET q == Len(query) + 1
     IN IF ready
        THEN /\ draws = <<>>
             /\ Apply(Arrived(Cur, buf, from, "get"))
        ELSE /\ draws # <<>>
             /\ Allocates(Cur, StartIndex, draws)
             /\ Apply(MissPath(Arrived(Cur, buf, from, "done"), q, draws, now))
  /\ UNCHANGED <<ready, now, nextSweep, currentServerIndex, handlers, nmsg, cache, orphans>>

\* An increment that hands a backend error on to its caller.
incrementQueryCount_Rethrows(oi) == IF oi = "err" THEN "raised" ELSE "returned"

\* incrementQueryCount once the backend has answered the INCR with oi: its
\* own catch logs an error, so the call returns either way.
incrementQueryCount(oi) == "returned"

\* The awaited incrementQueryCount and getCachedResponse have returned
\* (the handler reads and writes nothing between the two awaits, so they
\* are one suspension): the rest of handleDnsQuery.  An exception out of
\* either await would end the handler in its catch.
QueryGetDone(q, o, draws) ==
  /\ q \in 1..Len(query)
  /\ query[q].pc = "get"
  /\ \E oi \in Outcomes :
       IF incrementQueryCount(oi) = "raised"
       THEN /\ draws = <<>>
            /\ Apply([Cur EXCEPT !.query[q].pc = "done"])
       ELSE LET cachedResponse == getCachedResponse(query[q].domain, o)
            IN IF cachedResponse # <<>>
               THEN /\ draws = <<>>
                    /\ Apply(HitPath(Cur, q, cachedResponse))
               ELSE /\ draws # <<>>
                    /\ Allocates(Cur, StartIndex, draws)
                    /\ Apply(MissPath(Cur, q, draws, now))
  /\ UNCHANGED <<ready, now, nextSweep, currentServerIndex, handlers, nmsg, cache, orphans>>

\* ------------------------------------------------ forwarder events
\* DnsRedisClient.cacheResponse up to its first await: the key and the
\* base64 text are computed, then SET is awaited.
Suspended(m, socket, q, response, domain, hash) == [m |-> m, sock |-> socket, q |-> q, response |-> response, key |-> CacheKey(domain), val |-> Base64Encode(response), stage |-> "set", matched |-> hash]

\* A datagram arrives on the socket of attempt h: handleUpstreamResponse
\* up to the awaited cacheResponse (which returns at once, without I/O,
\* when the cache client is not ready).  The socket receives once its
\* send has gone out.
UpstreamMessage(h, id, body) ==
  /\ h \in 1..Len(att)
  /\ att[h].sock = "open"
  /\ att[h].send = "done"
  /\ nmsg' = nmsg + 1
  /\ LET response == Datagram(id, body)
         responseQueryId == ReadUInt16BE(response)
         originalRequest == getRequestByUpstreamId(Cur, responseQueryId)
     IN IF originalRequest # 0
        THEN IF ready
             THEN /\ handlers' = handlers \cup {Suspended(nmsg + 1, h, originalRequest, response, req[originalRequest].domain, upstreamToHashMap[responseQueryId])}
                  /\ Apply(Cur)
                  /\ orphans' = orphans
             ELSE /\ handlers' = handlers
                  /\ Apply(FinishResponse(Cur, originalRequest, response, h))
                  /\ orphans' = orphans
        ELSE /\ handlers' = handlers
             /\ Apply(SocketClose(Cur, h))
             /\ orphans' = orphans + 1
  /\ UNCHANGED <<ready, now, nextSweep, currentServerIndex, cache>>

\* The backend answers the SET of a suspended cacheResponse: on success
\* the text is stored (SET drops any expiry) and EXPIRE is awaited; an
\* error is caught, cacheResponse returns and the handler finishes.
CacheSetDone(r, o) ==
  /\ r \in handlers
  /\ r.stage = "set"
  /\ IF o = "ok"
     THEN /\ cache' = Put(cache, r.key, [val |-> r.val, ttl |-> 0])
          /\ handlers' = (handlers \ {r}) \cup {[r EXCEPT !.stage = "expire"]}
          /\ Apply(Cur)
     ELSE /\ cache' = cache
          /\ handlers' = handlers \ {r}
          /\ Apply(FinishResponse(Cur, r.q, r.response, r.sock))
  /\ UNCHANGED <<ready, now, nextSweep, currentServerIndex, nmsg, orphans>>

\* The backend answers the EXPIRE: cacheResponse returns either way and
\* handleUpstreamResponse runs to its end.
CacheExpireDone(r, o) ==
  /\ r \in handlers
  /\ r.stage = "expire"
  /\ cache' = IF o = "ok" /\ r.key \in DOMAIN cache THEN [cache EXCEPT ![r.key].ttl = CacheTtl] ELSE cache
  /\ handlers' = handlers \ {r}
  /\ Apply(FinishResponse(Cur, r.q, r.response, r.sock))
  /\ UNCHANGED <<ready, now, nextSweep, currentServerIndex, nmsg, orphans>>

\* The send callback of attempt h without an error.
SendOk(h) ==
  /\ h \in 1..Len(att)
  /\ att[h].send = "pending"
  /\ currentServerIndex' = att[h].idx
  /\ Apply([Cur EXCEPT !.att[h].send = "done"])
  /\ UNCHANGED <<ready, now, nextSweep, handlers, nmsg, cache, orphans>>

\* The send callback of attempt h with an error.
SendError(h, draws) ==
  /\ h \in 1..Len(att)
  /\ att[h].send = "pending"
  /\ AllocatesAfter(Cur, h, draws)
  /\ Apply(FailOver([Cur EXCEPT !.att[h].send = "done"], h, draws, now, "send-error"))
  /\ UNCHANGED <<ready, now, nextSweep, currentServerIndex, handlers, nmsg, cache, orphans>>

\* The "error" listener of the socket of attempt h.  A closed socket emits
\* no event; a socket that fails before its send went out (the implicit
\* bind) drops the queued send, whose callback is then never called.
SocketError(h, draws) ==
  /\ h \in 1..Len(att)
  /\ att[h].sock = "open"
  /\ AllocatesAfter(Cur, h, draws)
  /\ Apply(FailOver([Cur EXCEPT !.att[h].send = "done"], h, draws, now, "socket-error"))
  /\ UNCHANGED <<ready, now, nextSweep, currentServerIndex, handlers, nmsg, cache, orphans>>

\* The 5 s timer of attempt h fires.  A timer whose entry has left the
\* table finds nothing under its hash, now and ever after (a hash is never
\* used again), so it is left armed in the model.
TimerFire(h, draws) ==
  /\ h \in 1..Len(att)
  /\ att[h].timer <= now
  /\ AllocatesAfter(Cur, h, draws)
  /\ IF getRequestByHash(Cur, h) # 0
     THEN Apply(FailOver(Cur, h, draws, now, "timeout"))
     ELSE Apply(Cur)
  /\ UNCHANGED <<ready, now, nextSweep, currentServerIndex, handlers, nmsg, cache, orphans>>

\* The 60 s interval of startCleanupTimer.
Sweep ==
  /\ nextSweep <= now
  /\ nextSweep' = nextSweep + SweepIntervalMs
  /\ Apply(cleanupStaleRequests(Cur, now, StaleTimeoutMs))
  /\ UNCHANGED <<ready, now, currentServerIndex, handlers, nmsg, cache, orphans>>

\* Time passing over callbacks that are due: an event loop that is held up
\* for longer than the stale threshold and a sweeper period together.
Tick_Late ==
  /\ now' = now + StaleTimeoutMs + SweepIntervalMs + AttemptTimeoutMs
  /\ UNCHANGED <<ready, nextSweep, query, req, pendingRequests, upstreamToHashMap, currentServerIndex, att, handlers, nmsg, cache, toClient, toUpstream, orphans, thrown>>

\* Time passes, one attempt timeout at a time: the callbacks that were due
\* (timers of pending entries, the interval, send callbacks) have run.
Tick ==
  /\ nextSweep > now
  /\ \A h \in 1..Len(att) : att[h].send # "pending" /\ (att[h].timer > now \/ h \notin DOMAIN pendingRequests)
  /\ now' = now + AttemptTimeoutMs
  /\ UNCHANGED <<ready, nextSweep, query, req, pendingRequests, upstreamToHashMap, currentServerIndex, att, handlers, nmsg, cache, toClient, toUpstream, orphans, thrown>>

\* ------------------------------------------------------ specification
\* The client datagrams of the model: each client has its own transaction
\* id and spells the name in its own case.
ClientQueries == {[from |-> <<"127.0.0.1", 44444>>, buf |-> <<18, 52>> \o QueryBody(65)], [from |-> <<"127.0.0.1", 44445>>, buf |-> <<86, 120>> \o QueryBody(97)]}

Init ==
  /\ ready \in BOOLEAN
  /\ now = 0
  /\ nextSweep = SweepIntervalMs
  /\ query = <<>>
  /\ req = EmptyMap
  /\ pendingRequests = EmptyMap
  /\ upstreamToHashMap = EmptyMap
  /\ currentServerIndex = 0
  /\ att = <<>>
  /\ handlers = {}
  /\ nmsg = 0
  /\ cache = EmptyMap
  /\ toClient = <<>>
  /\ toUpstream = <<>>
  /\ orphans = 0
  /\ thrown = 0

\* The bounds of the model: a step is taken while it stays within them.
Within == Len(query') <= MaxQueries /\ Len(att') <= MaxAttempts /\ nmsg' <= MaxMsgs /\ now' <= MaxTicks * AttemptTimeoutMs

Next ==
  \/ \E c \in ClientQueries, draws \in DrawSeqs \cup {<<>>} : QueryArrive(c.buf, c.from, draws) /\ Within
  \/ \E q \in 1..MaxQueries, o \in Outcomes, draws \in DrawSeqs \cup {<<>>} : QueryGetDone(q, o, draws) /\ Within
  \/ \E h \in 1..Len(att), id \in WireIds, body \in ReplyBodies : UpstreamMessage(h, id, body) /\ Within
  \/ \E r \in handlers, o \in Outcomes : CacheSetDone(r, o)
  \/ \E r \in handlers, o \in Outcomes : CacheExpireDone(r, o)
  \/ \E h \in 1..Len(att) : SendOk(h)
  \/ \E h \in 1..Len(att), draws \in DrawSeqs : SendError(h, draws) /\ Within
  \/ \E h \in 1..Len(att), draws \in DrawSeqs : SocketError(h, draws) /\ Within
  \/ \E h \in 1..Len(att), draws \in DrawSeqs : TimerFire(h, draws) /\ Within
  \/ Tick /\ Within

Spec == Init /\ [][Next]_vars

TypeOK ==
  /\ Len(query) <= MaxQueries
  /\ DOMAIN req \subseteq 1..Len(query)
  /\ \A h \in DOMAIN pendingRequests : pendingRequests[h] \in DOMAIN req
  /\ nmsg <= MaxMsgs

\* ------------------------------------------------------------- claims
Rest(b) == SubSeq(b, 3, Len(b))

Last(sq) == sq[Len(sq)]

UpstreamDatagrams == {Datagram(id, body) : id \in WireIds, body \in ReplyBodies}

\* C1: every datagram the server has sent to a client, a forwarded upstream
\* reply or a cache hit, carries in octets 0-1 the transaction id of the
\* client query it answers and went to the sender of that query.
C1_ReplyCarriesClientId == \A i \in 1..Len(toClient) : CanReadUInt16BE(toClient[i].bytes) /\ ReadUInt16BE(toClient[i].bytes) = ReadUInt16BE(query[toClient[i].q].buf) /\ toClient[i].to = query[toClient[i].q].from

\* C1 witness: a forwarded upstream reply and a cache hit have both been
\* sent, to queries with different transaction ids.
C1_Witness == \E i, j \in 1..Len(toClient) : toClient[i].from # 0 /\ toClient[j].from = 0 /\ ReadUInt16BE(toClient[i].bytes) # ReadUInt16BE(toClient[j].bytes)

\* C2: getStats() returns pending = upstream: the two maps always have the
\* same number of entries.
C2_StatsEqual == getStats.pending = getStats.upstream

\* C3: the two maps form a bijection: every entry under a fingerprint has
\* exactly one upstream id mapping to that fingerprint, its record carries
\* that upstream id and that fingerprint, every upstream id maps to a
\* pending fingerprint, and the upstream ids of pending entries differ.
C3_Bijection ==
  /\ \A h \in DOMAIN pendingRequests :
       /\ Cardinality({i \in DOMAIN upstreamToHashMap : upstreamToHashMap[i] = h}) = 1
       /\ req[pendingRequests[h]].requestHash = h
       /\ req[pendingRequests[h]].upstreamQueryId \in DOMAIN upstreamToHashMap
       /\ upstreamToHashMap[req[pendingRequests[h]].upstreamQueryId] = h
  /\ \A i \in DOMAIN upstreamToHashMap : upstreamToHashMap[i] \in DOMAIN pendingRequests
  /\ \A g, h \in DOMAIN pendingRequests : g # h => req[pendingRequests[g]].upstreamQueryId # req[pendingRequests[h]].upstreamQueryId

\* C4: an upstream datagram whose transaction id is no key of
\* upstreamToHashMap has no effect but the closing of the socket it came
\* on: nothing is sent to a client, the request table, the records, the
\* cache, the sticky index and the upstream sends stay as they were and no
\* handler is left suspended.
C4_OrphanHasNoEffect == [][\A h \in 1..Len(att), id \in WireIds, body \in ReplyBodies : (UpstreamMessage(h, id, body) /\ id \notin DOMAIN upstreamToHashMap) => (toClient' = toClient /\ pendingRequests' = pendingRequests /\ upstreamToHashMap' = upstreamToHashMap /\ req' = req /\ cache' = cache /\ currentServerIndex' = currentServerIndex /\ toUpstream' = toUpstream /\ handlers' = handlers /\ att' = [att EXCEPT ![h].sock = "closed"])]_vars

\* C4 witness: an orphan datagram was dropped while a request was in
\* flight, and the request is still in the table.
C4_Witness == orphans > 0 /\ DOMAIN pendingRequests # {} /\ toClient = <<>>

\* C5: when the cache returns a response for the queried name,
\* handleDnsQuery sends exactly one datagram, to the client, and contacts
\* no upstream: no socket is opened, no upstream id is allocated and the
\* request table is unchanged.
C5_CacheHitContactsNoUpstream == [][\A q \in 1..Len(query), o \in Outcomes : (QueryGetDone(q, o, <<>>) /\ getCachedResponse(query[q].domain, o) # <<>>) => (Len(toClient') = Len(toClient) + 1 /\ SubSeq(toClient', 1, Len(toClient)) = toClient /\ Last(toClient').to = query[q].from /\ att' = att /\ toUpstream' = toUpstream /\ pendingRequests' = pendingRequests /\ upstreamToHashMap' = upstreamToHashMap /\ req' = req)]_vars

\* C5 witness: a query was answered from the cache: a datagram went to its
\* client and no clientInfo was ever built for it.
C5_Witness == \E i \in 1..Len(toClient) : toClient[i].from = 0 /\ toClient[i].q \notin DOMAIN req /\ query[toClient[i].q].pc = "done"

\* C6: only octets 0-1 are rewritten: every datagram sent upstream equals
\* the client's datagram from octet 2 on, on every attempt, the client's
\* buffer is as it was received, and every datagram sent to a client
\* equals the upstream reply or the cached octets from octet 2 on, the
\* cached octets being those of an upstream reply.
C6_OnlyIdRewritten ==
  /\ \A q \in 1..Len(query) : query[q].buf \in {c.buf : c \in ClientQueries}
  /\ \A i \in 1..Len(toUpstream) : Len(toUpstream[i].bytes) = Len(query[att[toUpstream[i].hash].q].buf) /\ Rest(toUpstream[i].bytes) = Rest(query[att[toUpstream[i].hash].q].buf)
  /\ \A i \in 1..Len(toClient) : Len(toClient[i].bytes) = Len(toClient[i].src) /\ Rest(toClient[i].bytes) = Rest(toClient[i].src) /\ toClient[i].src \in UpstreamDatagrams

\* C6 witness: a query went to a second upstream after a fail-over, and a
\* reply and a cache hit have been sent to clients.
C6_Witness == (\E i \in 1..Len(toUpstream) : toUpstream[i].server = 1) /\ (\E i, j \in 1..Len(toClient) : toClient[i].from # 0 /\ toClient[j].from = 0)

\* C7: on a cache miss the first upstream contacted for a new client
\* query is the pool index recorded as sticky (currentServerIndex).
C7_MissStartsAtSticky == [][(Len(att') = Len(att) + 1 /\ Last(att').cause = "query") => Last(att').idx = currentServerIndex]_vars

\* C8: the sticky index changes only when a matched upstream reply has
\* been dispatched to the client for attempt i, and then to i: a
\* successful send with no reply does not change it.
C8_StickyOnlyOnReply == [][currentServerIndex' # currentServerIndex => (Len(toClient') = Len(toClient) + 1 /\ Last(toClient').from # 0 /\ currentServerIndex' = att[Last(toClient').from].idx)]_vars

\* C9: when the timer of attempt i fires with its entry still in the
\* table, the entry is removed, the socket is closed and exactly one new
\* attempt is started against pool index i+1 (there being one) with an
\* upstream id free at that time and a new socket; with the entry gone
\* the timer does nothing.
C9_TimerFailsOver == [][\A h \in 1..Len(att), draws \in DrawSeqs : TimerFire(h, draws) =>
    IF h \in DOMAIN pendingRequests
    THEN /\ h \notin DOMAIN pendingRequests'
         /\ att'[h].sock = "closed"
         /\ att[h].idx + 1 < Len(DNS_SERVERS) =>
              /\ Len(att') = Len(att) + 1
              /\ Last(att').idx = att[h].idx + 1
              /\ Last(att').q = att[h].q
              /\ Last(att').sock = "open"
              /\ Len(att') \in DOMAIN pendingRequests'
    ELSE pendingRequests' = pendingRequests /\ upstreamToHashMap' = upstreamToHashMap /\ att' = att /\ toUpstream' = toUpstream]_vars

\* C10: a send error or a socket error on an attempt is handled like its
\* timeout: the entry is removed, the socket closed and the fail-over to
\* pool index i+1 happens only while that attempt is still pending; no
\* datagram is sent to a client because of the error.
C10_ErrorFailsOverWhilePending == [][\A h \in 1..Len(att), draws \in DrawSeqs : (SendError(h, draws) \/ SocketError(h, draws)) =>
    /\ toClient' = toClient
    /\ h \notin DOMAIN pendingRequests'
    /\ att'[h].sock = "closed"
    /\ Len(att') > Len(att) => h \in DOMAIN pendingRequests
    /\ (h \in DOMAIN pendingRequests /\ att[h].idx + 1 < Len(DNS_SERVERS)) => (Len(att') = Len(att) + 1 /\ Last(att').idx = att[h].idx + 1 /\ Last(att').q = att[h].q)]_vars

AttemptsOf(q) == {h \in 1..Len(att) : att[h].q = q}

LastIndex == Len(DNS_SERVERS) - 1

\* Every attempt made for query q has been ended by one of its failure
\* handlers (timer, send error, socket error): none is left to run.
AllFailed(q) == AttemptsOf(q) # {} /\ \A h \in AttemptsOf(q) : att[h].failed

\* C11: when every attempted upstream of a client query has failed
\* (timeout or error) the query is abandoned: no datagram has been or is
\* ever sent to its client for it, and the request table holds no entry
\* for it.
C11_AbandonedGetsNothing == \A q \in 1..Len(query) : AllFailed(q) => ((\A i \in 1..Len(toClient) : toClient[i].q # q) /\ (\A h \in DOMAIN pendingRequests : pendingRequests[h] # q))

\* A matched upstream reply has been dispatched to the client of query q.
Answered(q) == \E i \in 1..Len(toClient) : toClient[i].q = q /\ toClient[i].from # 0

\* C12: once a matched upstream reply has been dispatched for a client
\* query the attempt sequence of that query is over: the table holds no
\* entry of the query and no later timer or error event starts another
\* attempt for it.
C12_ReplyEndsSequence == [][\A q \in 1..Len(query) : (Answered(q)' => \A h \in DOMAIN pendingRequests' : pendingRequests'[h] # q) /\ (Answered(q) => \A h \in 1..Len(att') : att'[h].q = q => h <= Len(att))]_vars

\* C13: for a matched upstream reply the datagram to the client is sent
\* before, or without waiting for, the completion of the cache write: the
\* handler that receives the reply sends it in the same run, whatever the
\* cache backend does afterwards.
C13_ReplyDoesNotWaitForCache == [][\A h \in 1..Len(att), id \in WireIds, body \in ReplyBodies : (UpstreamMessage(h, id, body) /\ getRequestByUpstreamId(Cur, id) # 0) => (Len(toClient') = Len(toClient) + 1 /\ Last(toClient').src = Datagram(id, body))]_vars

\* C14: the socket of every upstream attempt is closed exactly once: no
\* close() is called on a socket that is already closed (the call that
\* throws), and no socket is open once its attempt's entry has left the
\* table.
C14_SocketClosedOnce == thrown = 0 /\ \A h \in 1..Len(att) : att[h].sock = "open" => h \in DOMAIN pendingRequests

\* ------------------------------------------- malformed client datagrams
MaxMalformedQueries == 1

\* Client datagrams that are no DNS query: nothing at all, one octet, the
\* id alone, a header cut short at 11 octets, and a full header whose only
\* label runs past the end of the datagram, and one cut off after a whole
\* label, before the root label.
MalformedQueries == {<<>>, <<18>>, <<18, 52>>, <<18, 52, 1, 0, 0, 1, 0, 0, 0, 0, 0>>, <<18, 52, 1, 0, 0, 1, 0, 0, 0, 0, 0, 0, 5, 97>>, <<18, 52, 1, 0, 0, 1, 0, 0, 0, 0, 0, 0, 1, 97>>}

MalformedClient == <<"127.0.0.1", 44446>>

RECURSIVE QNameEnds(_, _)
\* The labels from offset on (0-based) lie within the datagram and end in
\* the zero octet.
QNameEnds(buf, offset) ==
  IF offset >= Len(buf) THEN FALSE
  ELSE IF buf[offset + 1] = 0 THEN TRUE
  ELSE QNameEnds(buf, offset + 1 + buf[offset + 1])

\* A truncated header, or a name that cannot be extracted.
Malformed(buf) == Len(buf) < HeaderLen \/ ~QNameEnds(buf, HeaderLen)

\* handleDnsQuery for a datagram under two octets: readUInt16BE(0) throws
\* a RangeError, the handler's catch logs it and the handler ends.
QueryDrop(buf, from) ==
  /\ ~CanReadUInt16BE(buf)
  /\ Apply([Cur EXCEPT !.query = Append(@, [buf |-> buf, from |-> from, queryId |-> NoId, domain |-> <<>>, pc |-> "done"])])
  /\ UNCHANGED <<ready, now, nextSweep, currentServerIndex, handlers, nmsg, cache, orphans>>

WithinMalformed == Len(query') <= MaxMalformedQueries /\ Len(att') <= MaxAttempts /\ nmsg' <= MaxMsgs /\ now' <= MaxTicks * AttemptTimeoutMs

NextMalformed ==
  \/ \E buf \in MalformedQueries, draws \in DrawSeqs \cup {<<>>} : QueryArrive(buf, MalformedClient, draws) /\ WithinMalformed
  \/ \E buf \in MalformedQueries : QueryDrop(buf, MalformedClient) /\ WithinMalformed
  \/ \E q \in 1..MaxMalformedQueries, o \in Outcomes, draws \in DrawSeqs \cup {<<>>} : QueryGetDone(q, o, draws) /\ WithinMalformed
  \/ \E h \in 1..Len(att), id \in WireIds, body \in ReplyBodies : UpstreamMessage(h, id, body) /\ WithinMalformed
  \/ \E r \in handlers, o \in Outcomes : CacheSetDone(r, o)
  \/ \E r \in handlers, o \in Outcomes : CacheExpireDone(r, o)
  \/ \E h \in 1..Len(att) : SendOk(h)
  \/ \E h \in 1..Len(att), draws \in DrawSeqs : SendError(h, draws) /\ WithinMalformed
  \/ \E h \in 1..Len(att), draws \in DrawSeqs : SocketError(h, draws) /\ WithinMalformed
  \/ \E h \in 1..Len(att), draws \in DrawSeqs : TimerFire(h, draws) /\ WithinMalformed
  \/ Tick /\ WithinMalformed

SpecMalformed == Init /\ [][NextMalformed]_vars

\* C15: a malformed client datagram (a header under 12 octets, or a name
\* that cannot be extracted) is dropped: nothing is forwarded to an
\* upstream for it, no clientInfo and no table entry is made and nothing
\* is sent to its client.
C15_MalformedDropped == \A q \in 1..Len(query) : Malformed(query[q].buf) => (AttemptsOf(q) = {} /\ q \notin DOMAIN req /\ (\A h \in DOMAIN pendingRequests : pendingRequests[h] # q) /\ (\A i \in 1..Len(toClient) : toClient[i].q # q))

\* The first attempt made for query q is the miss path's: the client's
\* octets after the id, to the upstream the server loop starts with.
ForwardedAsMiss(q) == \E h \in AttemptsOf(q) : att[h].cause = "query" /\ att[h].idx = StartIndex /\ toUpstream[h].server = StartIndex /\ Rest(toUpstream[h].bytes) = Rest(query[q].buf)

\* C16: with the cache client not ready getCachedResponse returns none
\* and cacheResponse and incrementQueryCount return without a backend
\* command and without raising: no handler ever waits for the backend,
\* the cache is never written, no client is answered from the cache,
\* every client query is forwarded as a miss in the run of its handler
\* and a matched upstream reply is sent to the client in the run of the
\* handler that receives it.
C16_NotReadyIsMiss == [][~ready =>
    /\ cache' = cache
    /\ handlers' = {}
    /\ \A q \in 1..Len(query') : query'[q].pc = "done" /\ q \in DOMAIN req' /\ ForwardedAsMiss(q)'
    /\ \A i \in 1..Len(toClient') : toClient'[i].from # 0
    /\ \A h \in 1..Len(att), id \in WireIds, body \in ReplyBodies : (UpstreamMessage(h, id, body) /\ getRequestByUpstreamId(Cur, id) # 0) => (Len(toClient') = Len(toClient) + 1 /\ Last(toClient').src = Datagram(id, body))]_vars

\* C16 witness: without the cache two queries were forwarded and an
\* upstream reply reached a client.
C16_Witness == ~ready /\ Len(query) = MaxQueries /\ (\A q \in 1..Len(query) : ForwardedAsMiss(q)) /\ toClient # <<>>

\* C17: a backend error on a cache read is taken for a miss, the query is
\* forwarded upstream even when the cache holds the name; an error on the
\* counter increment does not end the handler, the query is answered from
\* the cache or forwarded; an error on a cache write (SET or EXPIRE) is
\* swallowed, the handler goes on to send the upstream reply, with the
\* client's id, to the client of the matched request and to remove that
\* request's entry.
C17_CacheErrorsTolerated == [][
    /\ \A q \in 1..Len(query), draws \in DrawSeqs \cup {<<>>} : QueryGetDone(q, "err", draws) =>
         (toClient' = toClient /\ Len(att') = Len(att) + 1 /\ Last(att').q = q /\ Last(att').idx = StartIndex /\ Len(att') \in DOMAIN pendingRequests')
    /\ \A q \in 1..Len(query), o \in Outcomes, draws \in DrawSeqs \cup {<<>>} : QueryGetDone(q, o, draws) =>
         (Len(toClient') = Len(toClient) + 1 \/ Len(att') = Len(att) + 1)
    /\ \A r \in handlers : (CacheSetDone(r, "err") \/ CacheExpireDone(r, "err")) =>
         /\ handlers' = handlers \ {r}
         /\ Len(toClient') = Len(toClient) + 1
         /\ Last(toClient').q = r.q
         /\ Last(toClient').to = query[r.q].from
         /\ Last(toClient').bytes = WriteUInt16BE(r.response, ReadUInt16BE(query[r.q].buf))
         /\ req[r.q].requestHash \notin DOMAIN pendingRequests'
         /\ req[r.q].upstreamQueryId \notin DOMAIN upstreamToHashMap']_vars

\* C17 witness: the reply to one query was sent although the EXPIRE of its
\* cache write failed (the name is stored without a ttl), and a second
\* query for the stored name, which took the upstream id the first one
\* gave back, was forwarded upstream: its cache read failed.
C17_Witness == \E q1, q2 \in 1..Len(query) :
    /\ q1 # q2
    /\ CacheKey(query[q2].domain) \in DOMAIN cache
    /\ cache[CacheKey(query[q2].domain)].ttl = 0
    /\ \E h \in AttemptsOf(q1) : AttemptsOf(q1) = {h} /\ ~att[h].failed /\ (\E k \in 1..Len(toClient) : toClient[k].q = q1 /\ toClient[k].from = h) /\ (\E g \in AttemptsOf(q2) : att[g].cause = "query" /\ att[g].uid = att[h].uid)
    /\ ForwardedAsMiss(q2)

\* --------------------------------------------- timers and the sweeper
MaxTimedQueries == 1
MaxTimedTicks == 20

WithinTimed == Len(query') <= MaxTimedQueries /\ Len(att') <= MaxAttempts /\ nmsg' <= MaxMsgs /\ now' <= MaxTimedTicks * AttemptTimeoutMs

\* The run of one client past the first run of the sweeper.
NextTimed ==
  \/ \E c \in ClientQueries, draws \in DrawSeqs \cup {<<>>} : QueryArrive(c.buf, c.from, draws) /\ WithinTimed
  \/ \E q \in 1..MaxTimedQueries, o \in Outcomes, draws \in DrawSeqs \cup {<<>>} : QueryGetDone(q, o, draws) /\ WithinTimed
  \/ \E h \in 1..Len(att), id \in WireIds, body \in ReplyBodies : UpstreamMessage(h, id, body) /\ WithinTimed
  \/ \E r \in handlers, o \in Outcomes : CacheSetDone(r, o)
  \/ \E r \in handlers, o \in Outcomes : CacheExpireDone(r, o)
  \/ \E h \in 1..Len(att) : SendOk(h)
  \/ \E h \in 1..Len(att), draws \in DrawSeqs : SendError(h, draws) /\ WithinTimed
  \/ \E h \in 1..Len(att), draws \in DrawSeqs : SocketError(h, draws) /\ WithinTimed
  \/ \E h \in 1..Len(att), draws \in DrawSeqs : TimerFire(h, draws) /\ WithinTimed
  \/ Sweep
  \/ Tick /\ WithinTimed

SpecTimed == Init /\ [][NextTimed]_vars

\* When storeRequest put the entry of attempt h into the table.
InsertedAt(h) == att[h].timer - AttemptTimeoutMs

MaxAllocQueries == 3
MaxDraws == 3

\* Math.floor(Math.random() * 65535): Math.random() is at least 0 and less
\* than 1, so the draw is a whole number from 0 to 65534.
IdRange == 65535

DrawRange == 0..(IdRange - 1)

\* The ids followed through the allocator, those of them it can draw.
AllocIds == {1, 2, 7} \cap DrawRange

\* What the random source may yield in one call of the allocator: the ids
\* in three orders, and a draw that repeats.
AllocDraws == {d \in {<<1, 2, 7>>, <<2, 7, 1>>, <<7, 1, 2>>, <<2, 2, 1>>} : Len(d) <= MaxDraws /\ \A j \in 1..Len(d) : d[j] \in AllocIds}

WithinAlloc == Len(query') <= MaxAllocQueries /\ Len(att') <= MaxAllocQueries

\* Client queries and failing sends, the allocator drawing at random.
NextAlloc ==
  \/ \E c \in ClientQueries, draws \in AllocDraws \cup {<<>>} : QueryArrive(c.buf, c.from, draws) /\ WithinAlloc
  \/ \E q \in 1..MaxAllocQueries, o \in Outcomes, draws \in AllocDraws \cup {<<>>} : QueryGetDone(q, o, draws) /\ WithinAlloc
  \/ \E h \in 1..Len(att), draws \in AllocDraws : SendError(h, draws) /\ WithinAlloc

SpecAlloc == Init /\ [][NextAlloc]_vars

\* Attempt a carries what the allocator returns for the keys and the draws
\* it was called with: the first draw that is no key, every draw before it
\* being one.
AllocatedFrom(keys, draws, a) ==
  /\ a.uid \notin keys
  /\ a.rejected < Len(draws)
  /\ draws[a.rejected + 1] = a.uid
  /\ \A j \in 1..a.rejected : draws[j] \in keys
  /\ (keys = {1, 2} /\ draws = <<1, 2, 7>>) => (a.uid = 7 /\ a.rejected = 2)

\* C19: generateUniqueUpstreamId returns a value that is no key of
\* upstreamToHashMap at the time of the call, after rejecting every
\* colliding draw (with ids {1, 2} in the table and the draws 1, 2, 7 it
\* returns 7 after two rejections), and the call leaves the maps as they
\* are: the step that makes an attempt changes them by the cleanup before
\* the call, if any, and the storeRequest after it.
C19_AllocatorReturnsFreeId == [][Len(att') = Len(att) + 1 =>
    LET a == Last(att')
    IN /\ \A h \in 1..Len(att') : AllocatedFrom(att'[h].seen, att'[h].draws, att'[h])
       /\ a.seen \subseteq DOMAIN upstreamToHashMap
       /\ DOMAIN upstreamToHashMap' = a.seen \cup {a.uid}
       /\ upstreamToHashMap'[a.uid] = Len(att')
       /\ \A i \in a.seen : upstreamToHashMap'[i] = upstreamToHashMap[i]
       /\ DOMAIN pendingRequests' \subseteq DOMAIN pendingRequests \cup {Len(att')}
       /\ pendingRequests'[Len(att')] = a.q
       /\ \A g \in DOMAIN pendingRequests' \ {Len(att')} : pendingRequests'[g] = pendingRequests[g]]_vars

\* C19 witness: with the ids 1 and 2 in the table and the draws 1, 2, 7
\* the allocator has returned 7 after two rejected draws, and 7 is stored.
C19_Witness == Len(att) = 3 /\ att[3].seen = {1, 2} /\ att[3].draws = <<1, 2, 7>> /\ att[3].uid = 7 /\ att[3].rejected = 2 /\ DOMAIN upstreamToHashMap = {1, 2, 7} /\ DOMAIN pendingRequests = {1, 2, 3}

\* The largest value of the 16-bit transaction id that writeUInt16BE
\* stores.
MaxUInt16 == 65535

\* 16-bit values at both ends of the range.
SixteenBitSamples == {0, 1, 2, 7, MaxUInt16 - 1, MaxUInt16}

\* The allocator can return v: the random source can yield v, and a draw
\* of v is returned.
PossibleResult(v) == v \in DrawRange /\ generateUniqueUpstreamId(upstreamToHashMap, <<v>>) = v

\* C20: the allocator draws from the whole 16-bit range: every value from
\* 0 to 65535 that is no key of upstreamToHashMap is a possible result,
\* 65535 among them.
C20_WholeRangeAllocatable == \A v \in SixteenBitSamples : v \notin DOMAIN upstreamToHashMap => PossibleResult(v)

\* The place of the first draw that is no key of the map (0: none is).
FirstFree(map, draws) == IF \E j \in 1..Len(draws) : draws[j] \notin DOMAIN map THEN CHOOSE j \in 1..Len(draws) : draws[j] \notin DOMAIN map /\ \A i \in 1..(j - 1) : draws[i] \in DOMAIN map ELSE 0

\* C21: allocation ends: whatever the table holds, when the random source
\* yields a value that is no key of upstreamToHashMap the do-while leaves
\* at the first such draw and returns it, after as many rounds as there
\* were colliding draws before it.
C21_AllocationTerminates == \A d \in AllocDraws : FirstFree(upstreamToHashMap, d) # 0 =>
    /\ generateUniqueUpstreamId(upstreamToHashMap, d) # NoId
    /\ generateUniqueUpstreamId(upstreamToHashMap, d) = d[FirstFree(upstreamToHashMap, d)]
    /\ Rejections(upstreamToHashMap, d) = FirstFree(upstreamToHashMap, d) - 1

\* C21 witness: two ids are in the table, an allocation has gone through
\* colliding draws, and the source can again yield a collision followed by
\* a free value.
C21_Witness == Cardinality(DOMAIN upstreamToHashMap) = 2 /\ (\E h \in 1..Len(att) : att[h].rejected >= 1) /\ (\E d \in AllocDraws : FirstFree(upstreamToHashMap, d) > 1)

\* -------------------------------------------- the request table alone
\* RequestManager's methods are public: this specification calls them
\* directly, on requests and with arguments drawn from small sets, so that
\* a fingerprint can be presented twice and a threshold other than the
\* default can be passed.
MaxTableTicks == 8

TableHashes == {1, 2}

TableIds == {1, 2}

TableTimestamps == {0, AttemptTimeoutMs}

TableMaxAges == {AttemptTimeoutMs, StaleTimeoutMs}

\* The DnsRequest objects handed to storeRequest.
TableRequests == {[clientIP |-> "127.0.0.1", clientPort |-> 44444, timestamp |-> ts, queryId |-> 4660, upstreamQueryId |-> id, domain |-> <<97>>, requestHash |-> 0] : id \in TableIds, ts \in TableTimestamps}

InitTable ==
  /\ ready = FALSE
  /\ now = 0
  /\ nextSweep = SweepIntervalMs
  /\ query = <<>>
  /\ req \in [1..2 -> TableRequests]
  /\ pendingRequests = EmptyMap
  /\ upstreamToHashMap = EmptyMap
  /\ currentServerIndex = 0
  /\ att = <<>>
  /\ handlers = {}
  /\ nmsg = 0
  /\ cache = EmptyMap
  /\ toClient = <<>>
  /\ toUpstream = <<>>
  /\ orphans = 0
  /\ thrown = 0

StoreCall(hash, q) ==
  /\ Apply(storeRequest(Cur, hash, q))
  /\ UNCHANGED <<ready, now, nextSweep, currentServerIndex, handlers, nmsg, cache, orphans>>

RemoveCall(hash, upstreamId) ==
  /\ Apply(removeRequest(Cur, hash, upstreamId))
  /\ UNCHANGED <<ready, now, nextSweep, currentServerIndex, handlers, nmsg, cache, orphans>>

SweepCall(timeoutMs) ==
  /\ Apply(cleanupStaleRequests(Cur, now, timeoutMs))
  /\ UNCHANGED <<ready, now, nextSweep, currentServerIndex, handlers, nmsg, cache, orphans>>

\* Date.now() moves on between two calls.
TableTick ==
  /\ now < MaxTableTicks * AttemptTimeoutMs
  /\ now' = now + AttemptTimeoutMs
  /\ UNCHANGED <<ready, nextSweep, query, req, pendingRequests, upstreamToHashMap, currentServerIndex, att, handlers, nmsg, cache, toClient, toUpstream, orphans, thrown>>

NextTable ==
  \/ \E hash \in TableHashes, q \in 1..2 : StoreCall(hash, q)
  \/ \E hash \in TableHashes, upstreamId \in TableIds : RemoveCall(hash, upstreamId)
  \/ \E timeoutMs \in TableMaxAges : SweepCall(timeoutMs)
  \/ TableTick

SpecTable == InitTable /\ [][NextTable]_vars

\* C22: storeRequest under a fingerprint that is already a key of
\* pendingRequests fails and leaves both maps as they were; under a fresh
\* fingerprint it adds exactly one entry to each map.
C22_StoreRejectsKnownFingerprint == [][\A hash \in TableHashes, q \in 1..2 : StoreCall(hash, q) =>
    IF hash \in DOMAIN pendingRequests
    THEN UNCHANGED <<pendingRequests, upstreamToHashMap>>
    ELSE /\ Cardinality(DOMAIN pendingRequests') = Cardinality(DOMAIN pendingRequests) + 1
         /\ Cardinality(DOMAIN upstreamToHashMap') = Cardinality(DOMAIN upstreamToHashMap) + 1]_vars

\* ------------------------------------- the sweep among the fail-overs
\* One client query, its attempts timing out one after the other, and
\* cleanupStaleRequests called between them with a threshold it is given.
MaxAgedTicks == 3

WithinAged == Len(query') <= MaxTimedQueries /\ Len(att') <= MaxAttempts /\ nmsg' <= MaxMsgs /\ now' <= MaxAgedTicks * AttemptTimeoutMs

NextAged ==
  \/ \E c \in ClientQueries, draws \in DrawSeqs \cup {<<>>} : QueryArrive(c.buf, c.from, draws) /\ WithinAged
  \/ \E q \in 1..MaxTimedQueries, o \in Outcomes, draws \in DrawSeqs \cup {<<>>} : QueryGetDone(q, o, draws) /\ WithinAged
  \/ \E h \in 1..Len(att), id \in WireIds, body \in ReplyBodies : UpstreamMessage(h, id, body) /\ WithinAged
  \/ \E r \in handlers, o \in Outcomes : CacheSetDone(r, o)
  \/ \E r \in handlers, o \in Outcomes : CacheExpireDone(r, o)
  \/ \E h \in 1..Len(att) : SendOk(h)
  \/ \E h \in 1..Len(att), draws \in DrawSeqs : SendError(h, draws) /\ WithinAged
  \/ \E h \in 1..Len(att), draws \in DrawSeqs : SocketError(h, draws) /\ WithinAged
  \/ \E h \in 1..Len(att), draws \in DrawSeqs : TimerFire(h, draws) /\ WithinAged
  \/ \E timeoutMs \in TableMaxAges : SweepCall(timeoutMs)
  \/ Tick /\ WithinAged

SpecAged == Init /\ [][NextAged]_vars

\* C23: the sweep measures an entry's age from the moment storeRequest
\* inserted it for its own attempt: an entry inserted less than the
\* threshold ago stays in the table, one inserted by a fail-over late in
\* the attempt sequence included.
C23_AgeFromInsertion == [][\A timeoutMs \in TableMaxAges : SweepCall(timeoutMs) =>
    \A h \in DOMAIN pendingRequests : now - InsertedAt(h) < timeoutMs => h \in DOMAIN pendingRequests']_vars

\* C24: cleanupStaleRequests(max_age) removes from both maps exactly the
\* entries that are older than max_age (an entry of pendingRequests, and
\* the upstream id that leads to it), leaves every other entry of either
\* map as it was, and returns the number of entries it removed.
C24_SweepRemovesExactlyStale == [][\A timeoutMs \in TableMaxAges : SweepCall(timeoutMs) =>
    LET stale == StaleHashes(Cur, now, timeoutMs) IN
    /\ pendingRequests' = [h \in (DOMAIN pendingRequests) \ stale |-> pendingRequests[h]]
    /\ upstreamToHashMap' = [i \in {j \in DOMAIN upstreamToHashMap : upstreamToHashMap[j] \notin stale} |-> upstreamToHashMap[i]]
    /\ cleanedCount(Cur, now, timeoutMs) = Cardinality(DOMAIN pendingRequests) - Cardinality(DOMAIN pendingRequests')]_vars

\* C25: the sweep is idempotent: in every state, after one call of
\* cleanupStaleRequests a second call at the same instant with the same
\* threshold finds no stale entry, returns 0 and leaves both maps as the
\* first call left them.
C25_SweepIdempotent == \A timeoutMs \in TableMaxAges :
    LET once == cleanupStaleRequests(Cur, now, timeoutMs) IN
    /\ cleanedCount(once, now, timeoutMs) = 0
    /\ cleanupStaleRequests(once, now, timeoutMs).pendingRequests = once.pendingRequests
    /\ cleanupStaleRequests(once, now, timeoutMs).upstreamToHashMap = once.upstreamToHashMap

\* C25 witness: a sweep has removed an entry (its attempt has not failed,
\* was not answered, and its socket is still open), and nothing in the
\* table is stale now.
C25_Witness == \E h \in 1..Len(att) :
    /\ h \notin DOMAIN pendingRequests /\ att[h].sock = "open" /\ ~att[h].failed
    /\ toClient = <<>> /\ handlers = {}
    /\ now - req[att[h].q].timestamp > AttemptTimeoutMs
    /\ StaleHashes(Cur, now, AttemptTimeoutMs) = {}

\* The attempts whose send callback or "error" listener can still run
\* cleanup(requestHash, upstreamQueryId) with the values of their closure.
LiveClosures == {h \in 1..Len(att) : att[h].send = "pending" \/ att[h].sock = "open"}

\* C26: removal is idempotent: for the arguments cleanup can pass, calling
\* removeRequest twice leaves both maps as calling it once does, and when
\* the entry is absent from pendingRequests the call changes neither map.
C26_RemoveIdempotent == \A h \in LiveClosures :
    LET once == removeRequest(Cur, h, att[h].uid) IN
    /\ removeRequest(once, h, att[h].uid).pendingRequests = once.pendingRequests
    /\ removeRequest(once, h, att[h].uid).upstreamToHashMap = once.upstreamToHashMap
    /\ h \notin DOMAIN pendingRequests => (once.pendingRequests = pendingRequests /\ once.upstreamToHashMap = upstreamToHashMap)

\* The pool index of the first attempt made for query q.
FirstIndex(q) == att[CHOOSE h \in AttemptsOf(q) : \A g \in AttemptsOf(q) : h <= g].idx

\* C27: the pool indices attempted for one client query are consecutive
\* and strictly increasing from the index of its first attempt, without
\* wrap-around: no upstream twice, none before the first index, and at
\* most (pool size - first index) attempts.
C27_IndicesConsecutive == \A q \in 1..Len(query) : AttemptsOf(q) # {} =>
    /\ \A h \in AttemptsOf(q) : att[h].idx = FirstIndex(q) + Cardinality({g \in AttemptsOf(q) : g < h})
    /\ \A h \in AttemptsOf(q) : att[h].idx >= FirstIndex(q) /\ att[h].idx < Len(DNS_SERVERS)
    /\ \A g, h \in AttemptsOf(q) : g # h => att[g].idx # att[h].idx
    /\ Cardinality(AttemptsOf(q)) <= Len(DNS_SERVERS) - FirstIndex(q)

\* C27 witness: a query has gone through the whole pool, its attempt on the
\* last upstream has failed as well, and another query has been forwarded
\* since.
C27_Witness == \E q \in 1..Len(query) :
    /\ Cardinality(AttemptsOf(q)) = Len(DNS_SERVERS)
    /\ \E h \in AttemptsOf(q) : att[h].idx = LastIndex /\ att[h].failed
    /\ \E p \in 1..Len(query) : p # q /\ AttemptsOf(p) # {}

\* The QNAME of a query as its client spelled it.
RawName(buf) == ParseLabels(buf, HeaderLen, <<>>)

\* C28: cache keys do not depend on the case of the queried name: a reply
\* is stored under "dns:" followed by the lower-cased QNAME of a query, and
\* a query whose lower-cased QNAME has an entry is answered from the cache
\* when the backend answers the read, however the client spelled the name.
C28_CacheKeyCaseInsensitive == [][
    /\ \A k \in (DOMAIN cache') \ (DOMAIN cache) : \E q \in 1..Len(query) : k = <<100, 110, 115, 58>> \o ToLowerCase(RawName(query[q].buf))
    /\ \A q \in 1..Len(query) : (QueryGetDone(q, "ok", <<>>) \/ \E draws \in DrawSeqs : QueryGetDone(q, "ok", draws)) =>
         ((<<100, 110, 115, 58>> \o ToLowerCase(RawName(query[q].buf))) \in DOMAIN cache =>
            (Len(toClient') = Len(toClient) + 1 /\ Last(toClient').q = q /\ Last(toClient').from = 0 /\ Last(toClient').to = query[q].from /\ att' = att))]_vars

\* C28 witness: the reply to a query that spelled the name in upper case
\* was cached, and a query that spelled it in lower case was then answered
\* from the cache.
C28_Witness == \E i, j \in 1..Len(toClient) :
    /\ i < j
    /\ toClient[i].from # 0 /\ toClient[j].from = 0
    /\ RawName(query[toClient[i].q].buf) # ToLowerCase(RawName(query[toClient[i].q].buf))
    /\ RawName(query[toClient[j].q].buf) # RawName(query[toClient[i].q].buf)
    /\ (<<100, 110, 115, 58>> \o RawName(query[toClient[j].q].buf)) \in DOMAIN cache

\* C29: every response key in the cache carries the 300 s expiry: in no
\* reachable state, one where the backend failed between the commands of a
\* cacheResponse call included, is there a key without it.
C29_EveryKeyExpires == \A k \in DOMAIN cache : cache[k].ttl = CacheTtl

\* Attempt a on the first upstream went out, was abandoned when its timer
\* fired, and attempt b is the one the fail-over started on the second
\* upstream.
FailedOver(a, b) == att[a].idx = 0 /\ att[a].failed /\ att[b].q = att[a].q /\ att[b].idx = 1 /\ att[b].cause = "timeout" /\ b > a

\* C30: after a fail-over from the first upstream to the second, a datagram
\* that carries the upstream id of the abandoned attempt and reaches the
\* forwarder on a socket opened since (not as the reply to that socket's
\* own attempt) causes no datagram to a client, now or by a handler left
\* suspended, even when the id is in use again.
C30_LateReplyDropped == [][\A h \in 1..Len(att), id \in WireIds, body \in ReplyBodies :
    (UpstreamMessage(h, id, body) /\ att[h].uid # id /\ \E a, b \in 1..Len(att) : FailedOver(a, b) /\ att[a].uid = id /\ h > b)
      => (toClient' = toClient /\ handlers' = handlers)]_vars

\* C31: the two map updates of an insert or of a removal are one step for
\* every handler: whenever a handler starts, an entry that is in one map
\* is in the other too, and the record of a pending entry has its
\* fingerprint and its upstream id filled in.
C31_NoHalfEntry ==
  /\ \A h \in DOMAIN pendingRequests : \E i \in DOMAIN upstreamToHashMap : upstreamToHashMap[i] = h
  /\ \A i \in DOMAIN upstreamToHashMap : upstreamToHashMap[i] \in DOMAIN pendingRequests
  /\ \A h \in DOMAIN pendingRequests : req[pendingRequests[h]].requestHash # 0 /\ req[pendingRequests[h]].upstreamQueryId \in UpstreamIdSpace

\* The octets (0-based) buf.toString('ascii', start, end) reads.
AsciiSliceReads(buf, start, end) == {j \in 0..(Len(buf) - 1) : j >= start /\ j < end}

RECURSIVE ParseReads(_, _)
\* The octets (0-based) parseDomainFromQuery reads from offset on: the
\* length octet the loop condition looks at, then the label.
ParseReads(buf, offset) ==
  IF offset < Len(buf)
  THEN {offset} \cup (IF buf[offset + 1] # 0
                      THEN AsciiSliceReads(buf, offset + 1, offset + 1 + buf[offset + 1]) \cup ParseReads(buf, offset + 1 + buf[offset + 1])
                      ELSE {})
  ELSE {}

\* The characters a name taken from buf can have at most: each label costs
\* its length octet, which the name repays with a dot from the second
\* label on.
NameRoom(buf) == IF Len(buf) > HeaderLen THEN Len(buf) - HeaderLen - 1 ELSE 0

\* C32: parseDomainFromQuery ends and returns a name for every buffer, a
\* buffer under 12 octets, one cut off before the root label and one whose
\* last label length points past the end included: it reads no octet at
\* or beyond the buffer length, and the name has no character the buffer
\* does not hold.
C32_ParseStaysInBuffer ==
  /\ \A buf \in MalformedQueries \cup {c.buf : c \in ClientQueries} :
       /\ ParseReads(buf, HeaderLen) \subseteq 0..(Len(buf) - 1)
       /\ parseDomainFromQuery(buf) \in Seq(0..127)
       /\ Len(parseDomainFromQuery(buf)) <= NameRoom(buf)
  /\ \A q \in 1..Len(query) : CanReadUInt16BE(query[q].buf) =>
       (query[q].domain = parseDomainFromQuery(query[q].buf) /\ Len(query[q].domain) <= NameRoom(query[q].buf))

\* C32 witness: the handler has taken a name from a datagram whose label
\* length points past its end, and from no more octets than it has.
C32_Witness == \E q \in 1..Len(query) :
    /\ Len(query[q].buf) > HeaderLen /\ ~QNameEnds(query[q].buf, HeaderLen)
    /\ HeaderLen + 1 + query[q].buf[HeaderLen + 1] > Len(query[q].buf)
    /\ query[q].domain # <<>>

\* C33: rewriting the transaction id can be undone and touches octets 0-1
\* only: for a buffer b of two octets or more and a 16-bit x, writing x at
\* offset 0 and then b's own id gives b again; so the datagram sent
\* upstream gives the client's datagram back under the client's id, and
\* the datagram sent to the client gives the upstream's reply back under
\* the upstream's id.
C33_RewriteInvertible ==
  /\ \A b \in {c.buf : c \in ClientQueries} \cup UpstreamDatagrams \cup {<<18, 52>>}, x \in SixteenBitSamples :
       /\ ReadUInt16BE(WriteUInt16BE(b, x)) = x
       /\ Len(WriteUInt16BE(b, x)) = Len(b)
       /\ Rest(WriteUInt16BE(b, x)) = Rest(b)
       /\ WriteUInt16BE(WriteUInt16BE(b, x), ReadUInt16BE(b)) = b
  /\ \A i \in 1..Len(toUpstream) : WriteUInt16BE(toUpstream[i].bytes, ReadUInt16BE(query[att[toUpstream[i].hash].q].buf)) = query[att[toUpstream[i].hash].q].buf
  /\ \A i \in 1..Len(toClient) : WriteUInt16BE(toClient[i].bytes, ReadUInt16BE(toClient[i].src)) = toClient[i].src

\* C33 witness: a query went upstream under an id other than its client's,
\* and the reply went to the client under an id other than the upstream's.
C33_Witness ==
  /\ \E i \in 1..Len(toUpstream) : ReadUInt16BE(toUpstream[i].bytes) # ReadUInt16BE(query[att[toUpstream[i].hash].q].buf)
  /\ \E i \in 1..Len(toClient) : toClient[i].from # 0 /\ ReadUInt16BE(toClient[i].bytes) # ReadUInt16BE(toClient[i].src) /\ ReadUInt16BE(toClient[i].bytes) = query[toClient[i].q].queryId

\* ------------------------------------------- a reply that comes twice
\* One client query and two upstream datagrams, so that the second can
\* arrive while the handler of the first is suspended in cacheResponse.
MaxDupQueries == 1

MaxDupMsgs == 2

MaxDupAttempts == 2

WithinDup == Len(query') <= MaxDupQueries /\ Len(att') <= MaxDupAttempts /\ nmsg' <= MaxDupMsgs

NextDup ==
  \/ \E c \in ClientQueries, draws \in DrawSeqs \cup {<<>>} : QueryArrive(c.buf, c.from, draws) /\ WithinDup
  \/ \E q \in 1..MaxDupQueries, o \in Outcomes, draws \in DrawSeqs \cup {<<>>} : QueryGetDone(q, o, draws) /\ WithinDup
  \/ \E h \in 1..Len(att), id \in WireIds, body \in ReplyBodies : UpstreamMessage(h, id, body) /\ WithinDup
  \/ \E r \in handlers, o \in Outcomes : CacheSetDone(r, o)
  \/ \E r \in handlers, o \in Outcomes : CacheExpireDone(r, o)
  \/ \E h \in 1..Len(att) : SendOk(h)
  \/ \E h \in 1..Len(att), draws \in DrawSeqs : SendError(h, draws) /\ WithinDup
  \/ \E h \in 1..Len(att), draws \in DrawSeqs : SocketError(h, draws) /\ WithinDup

SpecDup == Init /\ [][NextDup]_vars

\* The datagrams sent to the client of query q.
RepliesTo(q) == {i \in 1..Len(toClient) : toClient[i].q = q}

\* C34: for each client query datagram at most one datagram is sent to the
\* client, whatever the order of upstream datagrams (one that comes twice
\* included), errors and cache round-trips.
C34_AtMostOneReply == \A q \in 1..Len(query) : Cardinality(RepliesTo(q)) <= 1

\* C35: when a handleUpstreamResponse that was suspended in cacheResponse
\* dispatches its reply, the entry it removes is the one the reply's
\* upstream id matched when the datagram arrived, and no other: no entry
\* of an attempt a fail-over has started since.
C35_RemovesMatchedEntry == [][\A r \in handlers :
    ((\A r2 \in handlers' : r2.m # r.m) /\ Len(toClient') = Len(toClient) + 1 /\ Last(toClient').from = r.sock /\ att' = [att EXCEPT ![r.sock].sock = "closed"])
      => (DOMAIN pendingRequests) \ (DOMAIN pendingRequests') \subseteq {r.matched}]_vars

\* C36: a datagram received on the socket of one attempt can resolve that
\* attempt's own entry only: when its transaction id is the upstream id of
\* the pending entry of another attempt, nothing is sent to a client, no
\* handler is left to do so, and that entry stays in the table.
C36_OwnEntryOnly == [][\A h \in 1..Len(att), id \in WireIds, body \in ReplyBodies :
    (UpstreamMessage(h, id, body) /\ id \in DOMAIN upstreamToHashMap /\ upstreamToHashMap[id] # h /\ upstreamToHashMap[id] \in DOMAIN pendingRequests)
      => (toClient' = toClient /\ handlers' = handlers /\ upstreamToHashMap[id] \in DOMAIN pendingRequests')]_vars

\* The entries the table holds for client query q.
PendingOf(q) == {h \in DOMAIN pendingRequests : pendingRequests[h] = q}

\* C37: the table holds at most one pending entry per client query: a
\* fail-over never leaves two attempts of one query pending, whichever of
\* the socket error, the send error and the timer run for an attempt.
C37_OnePendingPerQuery == \A q \in 1..Len(query) : Cardinality(PendingOf(q)) <= 1

\* C37 witness: a query is on its third attempt after a fail-over by a
\* send error and one by a socket error or a timer, and the table holds
\* the entry of that attempt alone.
C37_Witness == \E q \in 1..Len(query) :
    /\ Cardinality(AttemptsOf(q)) = Len(DNS_SERVERS)
    /\ \E g, h \in AttemptsOf(q) : att[g].cause = "send-error" /\ att[h].cause \in {"socket-error", "timeout"}
    /\ \E h \in AttemptsOf(q) : PendingOf(q) = {h} /\ att[h].idx = LastIndex

\* ------------------------------------------------- every query ends
\* One client query with time enough for every upstream of the pool; every
\* armed timer fires, every cache call returns, every send callback is
\* called and time goes on.
MaxLiveQueries == 1

MaxLiveTicks == 4

WithinLive == Len(query') <= MaxLiveQueries /\ Len(att') <= MaxAttempts /\ nmsg' <= MaxMsgs /\ now' <= MaxLiveTicks * AttemptTimeoutMs

CacheReturns == \E r \in handlers, o \in Outcomes : CacheSetDone(r, o) \/ CacheExpireDone(r, o)

CacheReadReturns == \E q \in 1..MaxLiveQueries, o \in Outcomes, draws \in DrawSeqs \cup {<<>>} : QueryGetDone(q, o, draws) /\ WithinLive

SendCallback == \E h \in 1..Len(att) : SendOk(h) \/ (\E draws \in DrawSeqs : SendError(h, draws) /\ WithinLive)

TimerFires == \E h \in 1..Len(att), draws \in DrawSeqs : TimerFire(h, draws) /\ WithinLive

TimePasses == Tick /\ WithinLive

NextLive ==
  \/ \E c \in ClientQueries, draws \in DrawSeqs \cup {<<>>} : QueryArrive(c.buf, c.from, draws) /\ WithinLive
  \/ CacheReadReturns
  \/ \E h \in 1..Len(att), id \in WireIds, body \in ReplyBodies : UpstreamMessage(h, id, body) /\ WithinLive
  \/ CacheReturns
  \/ SendCallback
  \/ \E h \in 1..Len(att), draws \in DrawSeqs : SocketError(h, draws) /\ WithinLive
  \/ TimerFires
  \/ TimePasses

SpecLive == Init /\ [][NextLive]_vars /\ WF_vars(CacheReturns) /\ WF_vars(CacheReadReturns) /\ WF_vars(SendCallback) /\ WF_vars(TimerFires) /\ WF_vars(TimePasses)

\* Query q missed the cache and went to the first upstream at time 0.
Missed(q) == q <= Len(query) /\ \E h \in AttemptsOf(q) : att[h].cause = "query" /\ InsertedAt(h) = 0

\* Query q is over: a reply went to its client, or its attempt on the last
\* upstream of the pool has failed like all those before; and the table
\* holds no entry for it.
Terminal(q) == q <= Len(query) /\ PendingOf(q) = {} /\ (RepliesTo(q) # {} \/ (AllFailed(q) /\ \E h \in AttemptsOf(q) : att[h].idx = LastIndex))

\* C38: every client query that misses the cache ends: a reply is sent to
\* the client or the query is abandoned after the last upstream, and the
\* table holds no entry for it, given that every armed timer fires and
\* every cache call returns.
C38_EveryMissEnds == \A q \in 1..MaxLiveQueries : Missed(q) ~> Terminal(q)

\* ------------------------------------------ one name, two questions
\* Two clients ask for the same name, one for its A record and one for its
\* AAAA record (QTYPE 28).
MaxQuestionQueries == 2

MaxQuestionAttempts == 2

QuestionQueries == {[from |-> <<"127.0.0.1", 44444>>, buf |-> <<18, 52>> \o QueryBody(97)], [from |-> <<"127.0.0.1", 44445>>, buf |-> <<86, 120, 1, 0, 0, 1, 0, 0, 0, 0, 0, 0, 1, 97, 0, 0, 28, 0, 1>>]}

WithinQuestion == Len(query') <= MaxQuestionQueries /\ Len(att') <= MaxQuestionAttempts /\ nmsg' <= MaxMsgs

NextQuestion ==
  \/ \E c \in QuestionQueries, draws \in DrawSeqs \cup {<<>>} : QueryArrive(c.buf, c.from, draws) /\ WithinQuestion
  \/ \E q \in 1..MaxQuestionQueries, o \in Outcomes, draws \in DrawSeqs \cup {<<>>} : QueryGetDone(q, o, draws) /\ WithinQuestion
  \/ \E h \in 1..Len(att), id \in WireIds, body \in ReplyBodies : UpstreamMessage(h, id, body) /\ WithinQuestion
  \/ \E r \in handlers, o \in Outcomes : CacheSetDone(r, o)
  \/ \E r \in handlers, o \in Outcomes : CacheExpireDone(r, o)
  \/ \E h \in 1..Len(att) : SendOk(h)

SpecQuestion == Init /\ [][NextQuestion]_vars

RECURSIVE QNameEnd(_, _)
\* The offset (0-based) just past the root label of the name that starts
\* at offset, or the length of the datagram when the name is cut off.
QNameEnd(buf, offset) ==
  IF offset >= Len(buf) THEN Len(buf)
  ELSE IF buf[offset + 1] = 0 THEN offset + 1
  ELSE QNameEnd(buf, offset + 1 + buf[offset + 1])

\* The question section of a datagram with one question: QNAME, QTYPE and
\* QCLASS, the name in lower case (names compare without regard to case).
QuestionOf(buf) == ToLowerCase(SubSeq(buf, HeaderLen + 1, Min(QNameEnd(buf, HeaderLen) + 4, Len(buf))))

\* C39: a reply served from the cache answers the question its client
\* asked: its question section (name, type and class) is that of the
\* client's query, whatever queries filled the cache before.
C39_HitAnswersTheQuestion == \A i \in 1..Len(toClient) : toClient[i].from = 0 => QuestionOf(toClient[i].bytes) = QuestionOf(query[toClient[i].q].buf)

====
